---- MODULE Spec2Model ----
(***************************************************************************)
(* A model of s3_microbench.py: the benchmark driver (main), the three     *)
(* worker-pool phases (s3_upload_many, s3_download_many,                   *)
(* s3_range_read_many), the local data generator (write_local_file), the   *)
(* ranged reader (_range_read_one), the batch delete (s3_delete_many) and  *)
(* the throughput figure (Stats.mib_per_s).                                *)
(*                                                                         *)
(* Byte counts are small naturals; the clock is a tick counter, so an      *)
(* elapsed time of 0 is a measurement the clock can return.                *)
(***************************************************************************)
EXTENDS Integers, Sequences, FiniteSets, TLC

VARIABLES
    args,             \* the parsed command line (read-only after Init)
    pc,               \* where main() is
    phase,            \* the phase main() is in
    localFile,        \* size of the local artifact, or NoFile
    bucket,           \* key index -> size of the stored object, or NoObject
    status,           \* phase -> key -> state of that phase's future
    result,           \* phase -> key -> bytes the finished operation returned
    calls,            \* phase -> key -> number of invocations of the operation
    collected,        \* keys whose result the as_completed loop has added
    total,            \* the running total of the current phase
    out,              \* the result lines printed so far
    rate,             \* the throughput figure computed last
    err,              \* the exception that ended the run, or "none"
    deleteReqs,       \* the delete_objects requests issued by cleanup
    removeAttempted,  \* os.remove(local_path) was called
    pendingAtRaise,   \* the futures not finished when result() raised
    wl,               \* write_local_file's frame
    dm,               \* s3_delete_many's frame
    rr                \* _range_read_one's frame

vars == <<args, pc, phase, localFile, bucket, status, result, calls, collected,
          total, out, rate, err, deleteReqs, removeAttempted, pendingAtRaise,
          wl, dm, rr>>

(***************************************************************************)
(* Bounds of the model.                                                    *)
(***************************************************************************)
MaxKeys == 3
MaxConc == 2
MaxRangeReads == 1
MaxObjBytes == 1
MaxSecs == 1

NoFile == -1
NoObject == -1

Min(a, b) == IF a < b THEN a ELSE b

PoolPhases == {"upload", "download", "range"}

\* gen_object_keys: one key per index of range(n); key i is obj_{i:05d}.
gen_object_keys(n) == 0 .. (n - 1)

Keys == gen_object_keys(args.keys)

(***************************************************************************)
(* Stats.mib_per_s and the local-generation figure.  A figure is a         *)
(* fraction num/den of MiB per second, +infinity, or the exception the     *)
(* division raised.                                                        *)
(***************************************************************************)
MiB == 1048576

Figure(k, n, d) == [kind |-> k, num |-> n, den |-> d]

\* Stats.mib_per_s: self.mib / self.seconds if self.seconds > 0 else inf
mib_per_s(bytes_total, seconds) ==
    IF seconds > 0 THEN Figure("num", bytes_total, MiB * seconds)
                   ELSE Figure("inf", 0, 0)

\* main, the "Local gen" line: (obj_bytes/(1024*1024))/gen_secs
local_gen_rate(obj_bytes, gen_secs) ==
    IF gen_secs = 0 THEN Figure("ZeroDivisionError", 0, 0)
                    ELSE Figure("num", obj_bytes, MiB * gen_secs)

(***************************************************************************)
(* write_local_file.  The frame holds the arguments, `remaining`, the      *)
(* number of bytes written to the file, and the position in the loop:      *)
(* "test" is the while condition, "body" one pass of the loop body.        *)
(***************************************************************************)
MaxGenSize == 6
MaxChunk == 4

IdleFrame == [pc |-> "idle"]

wl_frame(size_bytes, chunk_bytes) ==
    [size_bytes |-> size_bytes, chunk_bytes |-> chunk_bytes,
     remaining |-> size_bytes, written |-> 0, pc |-> "test"]

\* while remaining > 0
wl_test(f) == [f EXCEPT !.pc = IF f.remaining > 0 THEN "body" ELSE "done"]

\* n = min(chunk_bytes, remaining); f.write(bytes(... for _ in range(n)));
\* remaining -= n.  range(n) is empty for n <= 0, so the block is empty.
wl_body(f) ==
    LET n == Min(f.chunk_bytes, f.remaining)
    IN  [f EXCEPT !.written = @ + (IF n > 0 THEN n ELSE 0),
                  !.remaining = @ - n,
                  !.pc = "test"]

wl_step(f) == IF f.pc = "test" THEN wl_test(f) ELSE wl_body(f)

RECURSIVE wl_run(_)
wl_run(f) == IF f.pc = "done" THEN f ELSE wl_run(wl_step(f))

(***************************************************************************)
(* _range_read_one.  get_object_range is the storage service answering a   *)
(* request "Range: bytes=first-last" on an object of `size` bytes: the     *)
(* bytes first..min(last, size-1), or an error when no byte of the object  *)
(* is at or after `first` (416, which the client raises).                  *)
(***************************************************************************)
MaxRrSize == 4
MaxRrRange == 3
MaxRrCount == 2

Unsatisfiable == -1

get_object_range(size, first, last) ==
    IF first >= size THEN Unsatisfiable
                     ELSE Min(last, size - 1) - first + 1

rr_frame(size, range_size, ranges_per_obj) ==
    [size |-> size, range_size |-> range_size, ranges_per_obj |-> ranges_per_obj,
     iter |-> 0, start |-> 0, end |-> 0, len |-> 0, n |-> 0, pc |-> "loop"]

\* start = 0 if size <= range_size else random.randint(0, size - range_size)
RangeStarts(size, range_size) ==
    IF size <= range_size THEN {0} ELSE 0 .. (size - range_size)

\* One pass of "for _ in range(ranges_per_obj)", or the return after the last.
rr_step(f, s) ==
    IF f.iter >= f.ranges_per_obj
    THEN [f EXCEPT !.pc = "done"]
    ELSE LET e == s + f.range_size - 1
             got == get_object_range(f.size, s, e)
         IN  IF got = Unsatisfiable
             THEN [f EXCEPT !.iter = @ + 1, !.start = s, !.end = e, !.pc = "error"]
             ELSE [f EXCEPT !.iter = @ + 1, !.start = s, !.end = e,
                            !.len = got, !.n = @ + got]

RECURSIVE rr_outcomes(_)
rr_outcomes(f) ==
    IF f.pc # "loop" THEN {f}
    ELSE UNION { rr_outcomes(rr_step(f, s)) : s \in RangeStarts(f.size, f.range_size) }

(***************************************************************************)
(* s3_delete_many.  A request is the slice keys[lo:hi] it carries, written *)
(* <<lo, hi>>; a request may raise, which ends the loop.                   *)
(***************************************************************************)
BatchSize == 1000
MaxDelKeys == 2001

dm_frame(n) == [n |-> n, i |-> 0, reqs |-> <<>>, pc |-> "loop"]

\* Mutation of ChunkEnd: chunk = keys[i:i+999]
ChunkEndShort(i, n) == Min(i + BatchSize - 1, n)

\* chunk = keys[i:i+1000]
ChunkEnd(i, n) == Min(i + BatchSize, n)

\* One pass of "for i in range(0, len(keys), 1000)", or the return.
dm_step(f, ok) ==
    IF f.i >= f.n
    THEN [f EXCEPT !.pc = "done"]
    ELSE LET chunk == <<f.i, ChunkEnd(f.i, f.n)>>
         IN  IF ok THEN [f EXCEPT !.reqs = Append(@, chunk), !.i = @ + BatchSize]
                   ELSE [f EXCEPT !.reqs = Append(@, chunk), !.pc = "error"]

RECURSIVE dm_outcomes(_)
dm_outcomes(f) ==
    IF f.pc # "loop" THEN {f}
    ELSE UNION { dm_outcomes(dm_step(f, ok)) : ok \in BOOLEAN }

\* The keys a sequence of answered requests has deleted.
DeletedBy(reqs) == UNION { reqs[j][1] .. (reqs[j][2] - 1) : j \in 1 .. Len(reqs) }

(***************************************************************************)
(* _download_one: body.read(read_chunk) until it returns no data.          *)
(***************************************************************************)
RECURSIVE dl_read(_, _, _)
dl_read(left, read_chunk, n) ==
    LET data == Min(read_chunk, left)
    IN  IF data = 0 THEN n ELSE dl_read(left - data, read_chunk, n + data)

(***************************************************************************)
(* The driver, main(), and the worker pool of a phase.                     *)
(***************************************************************************)
Line(label, bytes) == [label |-> label, bytes |-> bytes]

NoFigure == Figure("none", 0, 0)

Fresh == [k \in Keys |-> "none"]

Printed(label) == \E j \in 1 .. Len(out) : out[j].label = label

Running(ph) == { k \in Keys : status[ph][k] = "running" }

Finished(ph) == { k \in Keys : status[ph][k] \in {"done", "failed"} }

Pending(ph) == [queued |-> { k \in Keys : status[ph][k] = "queued" },
                running |-> Running(ph)]

NonePending == [queued |-> {}, running |-> {}]

\* Every future of the list comprehension "[pool.submit(op, k) for k in keys]"
\* exists.
AllSubmitted == \A k \in Keys : status[phase][k] # "none"

\* Mutation of HasIdleWorker: the pool starts a thread per queued item.
AlwaysIdleWorker == TRUE

\* ThreadPoolExecutor(max_workers=max_conc): a queued item is taken only by
\* one of the max_conc worker threads that is not running an item.
HasIdleWorker == Cardinality(Running(phase)) < args.max_concurrency

\* Mutation of PoolDrained: shutdown(wait=False), the exit does not wait.
PoolNotAwaited == TRUE

\* The exit of "with ThreadPoolExecutor(...) as pool": shutdown(wait=True)
\* returns when every submitted item has run.
PoolDrained == \A k \in Keys : status[phase][k] \in {"done", "failed"}

\* Mutation of Accumulate: total = f.result()
AccumulateOverwrite(t, r) == r

\* total += f.result()
Accumulate(t, r) == t + r

\* Mutation of NextPhase: the ranged reads run whatever their count.
NextPhaseAlwaysRange(ph) ==
    CASE ph = "upload" -> "download"
      [] ph = "download" -> "range"
      [] OTHER -> "cleanup"

\* The order of the phases in main(); the ranged reads are optional.
NextPhase(ph) ==
    CASE ph = "upload" -> "download"
      [] ph = "download" ->
            IF args.range_reads_per_obj > 0 THEN "range" ELSE "cleanup"
      [] OTHER -> "cleanup"

\* Mutation of DeletesObjects: the keep flag is not consulted.
DeletesAlways == TRUE

\* if args.keep: ... else: s3_delete_many(...)
DeletesObjects == ~args.keep

\* The command line: the key count may be 0 and the pool size 0 (argparse
\* takes any int); a range size of 1 is below every non-empty object's size
\* or equal to it, one of MaxObjBytes + 1 is above every object's size.
InitDriver ==
    /\ args \in [keep : BOOLEAN,
                 keys : 0 .. MaxKeys,
                 max_concurrency : 0 .. MaxConc,
                 range_reads_per_obj : 0 .. MaxRangeReads,
                 obj_bytes : 0 .. MaxObjBytes,
                 range_size : {1, MaxObjBytes + 1}]
    /\ pc = "gen"
    /\ phase = "gen"
    /\ localFile = NoFile
    /\ bucket = [k \in Keys |-> NoObject]
    /\ status = [ph \in PoolPhases |-> Fresh]
    /\ result = [ph \in PoolPhases |-> [k \in Keys |-> 0]]
    /\ calls = [ph \in PoolPhases |-> [k \in Keys |-> 0]]
    /\ collected = {}
    /\ total = 0
    /\ out = <<>>
    /\ rate = NoFigure
    /\ err = "none"
    /\ deleteReqs = <<>>
    /\ removeAttempted = FALSE
    /\ pendingAtRaise = NonePending

Init ==
    /\ InitDriver
    /\ wl = IdleFrame
    /\ dm = IdleFrame
    /\ rr = IdleFrame

\* main: write_local_file, the elapsed time, the "Local gen" line.
Generate ==
    /\ pc = "gen"
    /\ \E c \in 1 .. MaxChunk, gen_secs \in 0 .. MaxSecs :
          LET f == wl_run(wl_frame(args.obj_bytes, c))
              r == local_gen_rate(args.obj_bytes, gen_secs)
          IN  /\ localFile' = f.written
              /\ rate' = r
              /\ IF r.kind = "ZeroDivisionError"
                 THEN /\ pc' = "error"
                      /\ err' = "ZeroDivisionError"
                      /\ UNCHANGED <<phase, out>>
                 ELSE /\ pc' = "open"
                      /\ phase' = "upload"
                      /\ out' = Append(out, Line("gen", args.obj_bytes))
                      /\ UNCHANGED err
    /\ UNCHANGED <<args, bucket, status, result, calls, collected, total,
                   deleteReqs, removeAttempted, pendingAtRaise, wl, dm, rr>>

\* t0 = now(); total = 0; with ThreadPoolExecutor(max_workers=max_conc).
\* The constructor raises ValueError for max_workers <= 0.
OpenPool ==
    /\ pc = "open"
    /\ IF args.max_concurrency <= 0
       THEN /\ pc' = "error"
            /\ err' = "ValueError"
            /\ UNCHANGED <<total, collected>>
       ELSE /\ pc' = "pool"
            /\ total' = 0
            /\ collected' = {}
            /\ UNCHANGED err
    /\ UNCHANGED <<args, phase, localFile, bucket, status, result, calls, out,
                   rate, deleteReqs, removeAttempted, pendingAtRaise, wl, dm, rr>>

\* pool.submit(op, k), for the keys in list order.
Submit(k) ==
    /\ pc = "pool"
    /\ status[phase][k] = "none"
    /\ \A j \in Keys : j < k => status[phase][j] # "none"
    /\ status' = [status EXCEPT ![phase][k] = "queued"]
    /\ UNCHANGED <<args, pc, phase, localFile, bucket, result, calls, collected,
                   total, out, rate, err, deleteReqs, removeAttempted, pendingAtRaise, wl, dm, rr>>

\* A worker thread takes the oldest queued item and invokes the operation.
WorkerStart(k) ==
    /\ phase \in PoolPhases
    /\ status[phase][k] = "queued"
    /\ \A j \in Keys : j < k => status[phase][j] # "queued"
    /\ HasIdleWorker
    /\ status' = [status EXCEPT ![phase][k] = "running"]
    /\ calls' = [calls EXCEPT ![phase][k] = @ + 1]
    /\ UNCHANGED <<args, pc, phase, localFile, bucket, result, collected, total,
                   out, rate, err, deleteReqs, removeAttempted, pendingAtRaise, wl, dm, rr>>

\* What the operation of the phase can return for key k: a byte count, or
\* Raised.  Any request to the service may fail.
Raised == -1

OpReturns(ph, k) ==
    CASE ph = "upload" -> {localFile}
      [] ph = "download" ->
            IF bucket[k] = NoObject THEN {}
            ELSE { dl_read(bucket[k], c, 0) : c \in 1 .. MaxChunk }
      [] OTHER ->
            IF bucket[k] = NoObject THEN {}
            ELSE { f.n : f \in { g \in rr_outcomes(rr_frame(bucket[k], args.range_size,
                                                          args.range_reads_per_obj)) :
                                 g.pc = "done" } }

\* The operation of key k returns or raises; an upload that returns has
\* stored the local file under the key.
WorkerFinish(k) ==
    /\ phase \in PoolPhases
    /\ status[phase][k] = "running"
    /\ \E r \in OpReturns(phase, k) \cup {Raised} :
          IF r = Raised
          THEN /\ status' = [status EXCEPT ![phase][k] = "failed"]
               /\ UNCHANGED <<result, bucket>>
          ELSE /\ status' = [status EXCEPT ![phase][k] = "done"]
               /\ result' = [result EXCEPT ![phase][k] = r]
               /\ bucket' = IF phase = "upload"
                            THEN [bucket EXCEPT ![k] = localFile]
                            ELSE bucket
    /\ UNCHANGED <<args, pc, phase, localFile, calls, collected, total, out,
                   rate, err, deleteReqs, removeAttempted, pendingAtRaise, wl, dm, rr>>

\* Mutation of Collect: the loop catches what result() raises and goes on.
CollectSwallowingError(k) ==
    /\ pc = "pool"
    /\ AllSubmitted
    /\ k \notin collected
    /\ status[phase][k] \in {"done", "failed"}
    /\ total' = IF status[phase][k] = "done"
                THEN Accumulate(total, result[phase][k]) ELSE total
    /\ collected' = collected \cup {k}
    /\ UNCHANGED <<args, pc, phase, localFile, bucket, status, result, calls,
                   out, rate, err, deleteReqs, removeAttempted, pendingAtRaise,
                   wl, dm, rr>>

\* for f in as_completed(futures): total += f.result().  A finished future
\* is yielded once; result() re-raises what the operation raised, which
\* leaves the loop and enters the exit of the with block.
Collect(k) ==
    /\ pc = "pool"
    /\ AllSubmitted
    /\ k \notin collected
    /\ status[phase][k] \in {"done", "failed"}
    /\ IF status[phase][k] = "done"
       THEN /\ total' = Accumulate(total, result[phase][k])
            /\ collected' = collected \cup {k}
            /\ UNCHANGED <<pc, pendingAtRaise>>
       ELSE /\ pc' = "shutdown"
            /\ pendingAtRaise' = Pending(phase)
            /\ UNCHANGED <<total, collected>>
    /\ UNCHANGED <<args, phase, localFile, bucket, status, result, calls, out,
                   rate, err, deleteReqs, removeAttempted, wl, dm, rr>>

\* The exception leaves the with block once the pool has shut down, and
\* nothing in main() catches it.
Propagate ==
    /\ pc = "shutdown"
    /\ PoolDrained
    /\ pc' = "error"
    /\ err' = "OperationError"
    /\ UNCHANGED <<args, phase, localFile, bucket, status, result, calls,
                   collected, total, out, rate, deleteReqs, removeAttempted,
                   pendingAtRaise, wl, dm, rr>>

\* The loop has yielded every future: t1 = now(); return Stats(...); main
\* prints the line of the phase and goes on.
PhaseEnd ==
    /\ pc = "pool"
    /\ AllSubmitted
    /\ collected = Keys
    /\ \E seconds \in 0 .. MaxSecs : rate' = mib_per_s(total, seconds)
    /\ out' = Append(out, Line(phase, total))
    /\ phase' = NextPhase(phase)
    /\ pc' = IF NextPhase(phase) = "cleanup" THEN "cleanup" ELSE "open"
    /\ UNCHANGED <<args, localFile, bucket, status, result, calls, collected,
                   total, err, deleteReqs, removeAttempted, pendingAtRaise, wl, dm, rr>>

\* if args.keep: print(...) else: s3_delete_many(s3, bucket, keys)
Cleanup ==
    /\ pc = "cleanup"
    /\ IF DeletesObjects
       THEN \E f \in dm_outcomes(dm_frame(Cardinality(Keys))) :
              /\ deleteReqs' = f.reqs
              /\ IF f.pc = "done"
                 THEN /\ bucket' = [k \in Keys |->
                                      IF k \in DeletedBy(f.reqs) THEN NoObject
                                                                 ELSE bucket[k]]
                      /\ out' = out \o <<Line("cleaning", 0), Line("cleanup done", 0)>>
                      /\ pc' = "remove"
                      /\ UNCHANGED err
                 ELSE /\ bucket' = [k \in Keys |->
                                      IF k \in DeletedBy(SubSeq(f.reqs, 1, Len(f.reqs) - 1))
                                      THEN NoObject ELSE bucket[k]]
                      /\ out' = Append(out, Line("cleaning", 0))
                      /\ pc' = "error"
                      /\ err' = "OperationError"
       ELSE /\ out' = Append(out, Line("keeping", 0))
            /\ pc' = "remove"
            /\ UNCHANGED <<deleteReqs, bucket, err>>
    /\ UNCHANGED <<args, phase, localFile, status, result, calls, collected,
                   total, rate, removeAttempted, pendingAtRaise, wl, dm, rr>>

\* try: os.remove(local_path) except OSError: pass
RemoveLocal ==
    /\ pc = "remove"
    /\ removeAttempted' = TRUE
    /\ localFile' \in {NoFile, localFile}
    /\ pc' = "done"
    /\ UNCHANGED <<args, phase, bucket, status, result, calls, collected, total,
                   out, rate, err, deleteReqs, pendingAtRaise, wl, dm, rr>>

Next ==
    \/ Generate
    \/ OpenPool
    \/ \E k \in Keys : Submit(k)
    \/ \E k \in Keys : WorkerStart(k)
    \/ \E k \in Keys : WorkerFinish(k)
    \/ \E k \in Keys : Collect(k)
    \/ Propagate
    \/ PhaseEnd
    \/ Cleanup
    \/ RemoveLocal

Spec == Init /\ [][Next]_vars

(***************************************************************************)
(* The functions on their own, over every argument within the bounds.      *)
(* The driver does not run in these specifications.                        *)
(***************************************************************************)
DriverIdle ==
    /\ args = [keep |-> FALSE, keys |-> 0, max_concurrency |-> 1,
               range_reads_per_obj |-> 0, obj_bytes |-> 0, range_size |-> 1]
    /\ pc = "idle"
    /\ phase = "idle"
    /\ localFile = NoFile
    /\ bucket = <<>>
    /\ status = [ph \in PoolPhases |-> <<>>]
    /\ result = [ph \in PoolPhases |-> <<>>]
    /\ calls = [ph \in PoolPhases |-> <<>>]
    /\ collected = {}
    /\ total = 0
    /\ out = <<>>
    /\ rate = NoFigure
    /\ err = "none"
    /\ deleteReqs = <<>>
    /\ removeAttempted = FALSE
    /\ pendingAtRaise = NonePending

driverVars == <<args, pc, phase, localFile, bucket, status, result, calls,
                collected, total, out, rate, err, deleteReqs, removeAttempted,
                pendingAtRaise>>

\* write_local_file(path, size_bytes, chunk_bytes).  A chunk size of 0 stands
\* for the chunk sizes <= 0: with a negative one `remaining` grows instead of
\* staying put.
InitGen ==
    /\ DriverIdle
    /\ wl \in { wl_frame(size_bytes, chunk_bytes) :
                  size_bytes \in 0 .. MaxGenSize, chunk_bytes \in 0 .. MaxChunk }
    /\ dm = IdleFrame
    /\ rr = IdleFrame

WlTest ==
    /\ wl.pc = "test"
    /\ wl' = wl_test(wl)
    /\ UNCHANGED <<driverVars, dm, rr>>

WlBody ==
    /\ wl.pc = "body"
    /\ wl' = wl_body(wl)
    /\ UNCHANGED <<driverVars, dm, rr>>

NextGen == WlTest \/ WlBody

SpecGen == InitGen /\ [][NextGen]_vars

\* The interpreter keeps executing the loop while it has a next step.
FairSpecGen == SpecGen /\ WF_vars(NextGen)

\* s3_delete_many(s3_client, bucket, keys) for a key list of n keys.
InitDelete ==
    /\ DriverIdle
    /\ dm \in { dm_frame(n) : n \in 0 .. MaxDelKeys }
    /\ wl = IdleFrame
    /\ rr = IdleFrame

DmStep ==
    /\ dm.pc = "loop"
    /\ \E ok \in BOOLEAN : dm' = dm_step(dm, ok)
    /\ UNCHANGED <<driverVars, wl, rr>>

NextDelete == DmStep

SpecDelete == InitDelete /\ [][NextDelete]_vars

\* _range_read_one(key) on a stored object of `size` bytes.
InitRange ==
    /\ DriverIdle
    /\ rr \in { rr_frame(size, range_size, ranges_per_obj) :
                  size \in 0 .. MaxRrSize, range_size \in 1 .. MaxRrRange,
                  ranges_per_obj \in 0 .. MaxRrCount }
    /\ wl = IdleFrame
    /\ dm = IdleFrame

RrStep ==
    /\ rr.pc = "loop"
    /\ \E s \in RangeStarts(rr.size, rr.range_size) : rr' = rr_step(rr, s)
    /\ UNCHANGED <<driverVars, wl, dm>>

NextRange == RrStep

SpecRange == InitRange /\ [][NextRange]_vars

(***************************************************************************)
(* The claims.                                                             *)
(***************************************************************************)
RECURSIVE SumOver(_, _)
SumOver(S, f) ==
    IF S = {} THEN 0
    ELSE LET k == CHOOSE x \in S : TRUE IN f[k] + SumOver(S \ {k}, f)

LineBytes(label) ==
    { out[j].bytes : j \in { i \in 1 .. Len(out) : out[i].label = label } }

Started(ph) == \E k \in Keys : status[ph][k] # "none"

Failed(ph) == \E k \in Keys : status[ph][k] = "failed"

\* The place of a line, and of the phase that prints it, in a run.
Rank(label) ==
    CASE label = "gen" -> 1
      [] label = "upload" -> 2
      [] label = "download" -> 3
      [] label = "range" -> 4
      [] label = "cleanup done" -> 6
      [] OTHER -> 5

Later(ph) == { q \in PoolPhases : Rank(q) > Rank(ph) }

CleanupStarted ==
    \/ deleteReqs # <<>>
    \/ Printed("keeping")
    \/ Printed("cleaning")
    \/ removeAttempted

AllStored == \A k \in Keys : bucket[k] # NoObject

NoneStored == \A k \in Keys : bucket[k] = NoObject

\* C1, as stated: after a normal run with the keep flag neither the objects
\* are deleted nor the local artifact is removed; without it both the
\* deletion of all keys and the removal of the artifact are performed.
C1_KeepSkipsAllCleanup ==
    pc = "done" =>
        IF args.keep
        THEN deleteReqs = <<>> /\ AllStored /\ ~removeAttempted
        ELSE DeletedBy(deleteReqs) = Keys /\ NoneStored /\ removeAttempted

\* C1, amended: after a normal run the removal of the local artifact has
\* been attempted whatever the keep flag; with the flag no delete request
\* was issued and every uploaded object is still stored, without it every
\* key was sent for deletion and no object is left.
C1_KeepSkipsObjectDeletionOnly ==
    pc = "done" =>
        /\ removeAttempted
        /\ IF args.keep
           THEN deleteReqs = <<>> /\ AllStored
           ELSE DeletedBy(deleteReqs) = Keys /\ NoneStored

C1_Witness ==
    /\ pc = "done"
    /\ args.keep
    /\ args.keys > 0
    /\ localFile = NoFile

\* C2: a failed operation of a pool phase aborts the run: the line of that
\* phase is never printed, no later phase and no cleanup is started, and the
\* run stays in that phase until it ends in the error state; a phase's line
\* is printed only when the operation of every key succeeded.
C2_FailureAbortsRun ==
    \A ph \in PoolPhases :
        /\ Printed(ph) => \A k \in Keys : status[ph][k] = "done"
        /\ Failed(ph) =>
              /\ ~Printed(ph)
              /\ phase = ph
              /\ pc \in {"pool", "shutdown", "error"}
              /\ pc = "error" => err = "OperationError"
              /\ \A q \in Later(ph) : ~Started(q) /\ ~Printed(q)
              /\ ~CleanupStarted

C2_Witness ==
    /\ pc = "error"
    /\ Failed("download")
    /\ Printed("upload")
    /\ \E k \in Keys : status["download"][k] = "done"

\* C3: when a pool phase has completed, the operation was invoked exactly
\* once for every key and the bytes of the phase's line are the sum of what
\* the operations returned, whatever the order of completion; while the
\* phase collects, the total is the sum over the futures collected so far.
C3_TotalIsSumOfResults ==
    /\ \A ph \in PoolPhases :
          Printed(ph) =>
              /\ \A k \in Keys : calls[ph][k] = 1 /\ status[ph][k] = "done"
              /\ LineBytes(ph) = {SumOver(Keys, result[ph])}
    /\ pc = "pool" => total = SumOver(collected, result[phase])

C3_Witness ==
    /\ Printed("range")
    /\ args.keys >= 2
    /\ LineBytes("upload") = {args.keys * args.obj_bytes}
    /\ args.obj_bytes > 0

\* C4: in every state the number of operations running in a phase is at
\* most the concurrency limit.
C4_AtMostCActive ==
    \A ph \in PoolPhases : Cardinality(Running(ph)) <= args.max_concurrency

C4_Witness ==
    /\ phase \in PoolPhases
    /\ args.max_concurrency >= 2
    /\ Cardinality(Running(phase)) = args.max_concurrency
    /\ \E k \in Keys : status[phase][k] = "queued"

\* C5: the phases run one after the other in the order generate, upload,
\* download, ranged read (only with a count > 0), cleanup: an operation of a
\* phase exists only once every operation of the phase before has finished
\* and that phase's line is printed, and the lines come in that order.
C5_PhasesInOrder ==
    /\ \A i, j \in 1 .. Len(out) : i < j => Rank(out[i].label) < Rank(out[j].label)
    /\ \A ph \in PoolPhases : Printed(ph) => Finished(ph) = Keys
    /\ \A ph \in PoolPhases :
          (\E k \in Keys : status[ph][k] \in {"queued", "running"}) => phase = ph
    /\ Started("upload") => Printed("gen")
    /\ Started("download") => Printed("upload")
    /\ (Started("range") \/ Printed("range")) =>
          args.range_reads_per_obj > 0 /\ Printed("download")
    /\ CleanupStarted =>
          /\ Printed("gen") /\ Printed("upload") /\ Printed("download")
          /\ args.range_reads_per_obj > 0 => Printed("range")

C5_Witness ==
    /\ \E k \in Keys : status["range"][k] = "running"
    /\ \E k \in Keys : status["range"][k] = "queued"
    /\ Printed("download")

\* C6: no throughput figure of a run is a division error: a figure is a
\* quotient by a positive elapsed time, or +infinity.
C6_NoDivisionError ==
    /\ rate.kind \in {"none", "num", "inf"}
    /\ rate.kind = "num" => rate.den > 0
    /\ err # "ZeroDivisionError"

\* C7: write_local_file terminates, with exactly size_bytes bytes written.
C7_GeneratorTerminates ==
    <>(wl.pc = "done" /\ wl.written = wl.size_bytes)

\* What write_local_file does keep: with a chunk size of at least 1 it
\* terminates with exactly size_bytes bytes written.
GeneratorTerminatesWithPositiveChunk ==
    (wl.pc = "test" /\ wl.chunk_bytes >= 1 /\ wl.written = 0)
        ~> (wl.pc = "done" /\ wl.written = wl.size_bytes)

\* C8: a bulk delete of n keys that returns has issued ceil(n/1000) requests
\* of 1 to 1000 keys each, which carry the keys of the list in list order,
\* each key in exactly one request.
C8_DeleteBatches ==
    dm.pc = "done" =>
        /\ Len(dm.reqs) = (dm.n + BatchSize - 1) \div BatchSize
        /\ \A j \in 1 .. Len(dm.reqs) :
              /\ dm.reqs[j][2] - dm.reqs[j][1] >= 1
              /\ dm.reqs[j][2] - dm.reqs[j][1] <= BatchSize
              /\ dm.reqs[j][1] = IF j = 1 THEN 0 ELSE dm.reqs[j - 1][2]
        /\ dm.n > 0 => dm.reqs[Len(dm.reqs)][2] = dm.n

C8_Witness ==
    /\ dm.pc = "done"
    /\ Len(dm.reqs) = 3
    /\ dm.reqs[3][2] - dm.reqs[3][1] = 1

\* C9: every ranged read issued on an object of `size` bytes: with
\* size > range_size, 0 <= start <= size - range_size, the range lies inside
\* the object and range_size bytes are read; otherwise start = 0 and the read
\* yields `size` bytes.  With size > range_size a key's reads return
\* ranges_per_obj * range_size bytes.
C9_RangedReads ==
    /\ (rr.pc # "idle" /\ rr.iter > 0) =>
          IF rr.size > rr.range_size
          THEN /\ 0 <= rr.start /\ rr.start <= rr.size - rr.range_size
               /\ rr.end <= rr.size - 1
               /\ rr.pc # "error"
               /\ rr.len = rr.range_size
          ELSE /\ rr.start = 0
               /\ rr.pc # "error"
               /\ rr.len = rr.size
    /\ (rr.pc = "done" /\ rr.size > rr.range_size) =>
          rr.n = rr.ranges_per_obj * rr.range_size

\* What _range_read_one does keep: on an object of at least 1 byte every
\* read is answered, with the start and the byte count C9 states.
RangedReadsOfNonEmptyObject ==
    (rr.pc # "idle" /\ rr.size >= 1) =>
        /\ rr.pc # "error"
        /\ rr.iter > 0 =>
              IF rr.size > rr.range_size
              THEN /\ 0 <= rr.start /\ rr.start <= rr.size - rr.range_size
                   /\ rr.end <= rr.size - 1
                   /\ rr.len = rr.range_size
              ELSE rr.start = 0 /\ rr.len = rr.size
        /\ (rr.pc = "done" /\ rr.size > rr.range_size) =>
              rr.n = rr.ranges_per_obj * rr.range_size

\* C10: when an operation fails nothing is cancelled: the error reaches the
\* caller of the phase only after the operation of every submitted key has
\* been invoked once and has finished.
C10_NothingCancelled ==
    (pc = "error" /\ err = "OperationError" /\ phase \in PoolPhases) =>
        \A k \in Keys : status[phase][k] \in {"done", "failed"} /\ calls[phase][k] = 1

C10_Witness ==
    /\ pc = "error"
    /\ phase \in PoolPhases
    /\ pendingAtRaise.queued # {}
    /\ pendingAtRaise.running # {}
    /\ \A k \in Keys : calls[phase][k] = 1

====
